---- MODULE Spec2Model ----
(***************************************************************************)
(* Model of bot.py: the nickname verification bot.                         *)
(*                                                                         *)
(* The bot runs on the discord.py event loop: every gateway event          *)
(* (on_ready, on_member_join, on_message) and every slash-command          *)
(* invocation (add_nickname) is dispatched as its own asyncio task.  A     *)
(* task runs without interruption up to its next `await`; while it is      *)
(* suspended there, any other task may run.  An action of this model is    *)
(* therefore one segment of a handler: from its start, or from the         *)
(* completion of the platform call it was awaiting, up to the next         *)
(* platform call it issues or to its end.                                  *)
(***************************************************************************)
EXTENDS Integers, Sequences, FiniteSets, TLC

VARIABLES
    nickname_role_db,        \* bot.py:37  nickname -> list of role ids
    pending_verifications,   \* bot.py:38  user id -> guild id (NoGuild: no key)
    stored,                  \* the content of DATABASE_FILE (bot.py:23)
    tasks,                   \* the handler coroutines in flight
    out,                     \* what the last segment did: the call it issued, or how it ended
    lastJoin,                \* history: guild of the latest join recorded for each user,
                             \* and the guild of the entry which that join overwrote
    lookups,                 \* history: registry lookups made for a user since the latest join
    events                   \* number of events dispatched so far

vars == <<nickname_role_db, pending_verifications, stored, tasks, out,
          lastJoin, lookups, events>>

----------------------------------------------------------------------------
(* Bounds of the model.                                                    *)

\* handler coroutines that may be in flight together
MaxTasks == 2
\* events (joins, messages, commands, on_ready) dispatched in one run
MaxEvents == 4

Tasks == 1 .. MaxTasks

----------------------------------------------------------------------------
(* Values.                                                                 *)

\* accounts: account 1 is a person, account 2 is automated (member.bot)
Accounts == {1, 2}
IsBot(a) == a = 2
Guilds == {1, 2}
\* pending_verifications has no key for the user
NoGuild == 0

\* Text is a sequence of characters; " " stands for any whitespace character.
Falcon == <<"F">>
Ghost == <<"G">>
Unknown == <<"X">>
Blank == <<" ">>

\* message.content of a direct message
ReplyTexts == {Falcon, <<" ", "F", " ">>, Ghost, Unknown}
\* the nickname argument of /addnickname
AdminTexts == {Falcon, <<"F", " ">>, Blank}
\* the role argument of /addnickname
AdminRoles == {10, 20}

\* results of a platform call: it returns, or raises discord.Forbidden, another
\* discord.HTTPException, or any other Exception
Outcomes == {"ok", "forbidden", "http", "other"}

IsSpace(c) == c = " "

\* str.strip(): drop leading and trailing whitespace
RECURSIVE LStrip(_)
LStrip(s) ==
    IF s # << >> /\ IsSpace(Head(s)) THEN LStrip(Tail(s)) ELSE s

RECURSIVE RStrip(_)
RStrip(s) ==
    IF s # << >> /\ IsSpace(s[Len(s)]) THEN RStrip(SubSeq(s, 1, Len(s) - 1)) ELSE s

Strip(s) == RStrip(LStrip(s))

Range(s) == {s[k] : k \in DOMAIN s}

----------------------------------------------------------------------------
(* The guilds, as the platform reports them.  The roles of a guild and     *)
(* their positions are fixed during a run.                                 *)

\* guild.get_role(role_id) returns a role
RoleExists(g, r) ==
    \/ g = 1 /\ r \in {10, 20}
    \/ g = 2 /\ r \in {10, 99}

\* role.position
Position(g, r) ==
    IF g = 1 THEN (IF r = 10 THEN 5 ELSE 1)
    ELSE (IF r = 10 THEN 3 ELSE 1)

\* guild.me.top_role.position
TopPosition(g) == 3

\* the hierarchy check written with >= in place of >
TopRoleAboveOrEqual(g, r) == TopPosition(g) >= Position(g, r)

\* guild.me.top_role > role: in guild 1 role 10 is senior to the bot and role
\* 20 junior; in guild 2 role 10 is the bot's own top role and role 99 junior
TopRoleAbove(g, r) == TopPosition(g) > Position(g, r)

----------------------------------------------------------------------------
(* The stored document and load_database / save_database.                  *)

\* an element of a JSON array: an integer, a string of digits, or anything else
IntItem(n) == [t |-> "int", v |-> n]
StrItem(n) == [t |-> "str", v |-> n]
OtherItem == [t |-> "other", v |-> 0]
\* a string such as a superscript two: str.isdigit() is true of it and int()
\* raises ValueError
SuperscriptItem == [t |-> "superscript", v |-> 2]

\* a value of the JSON object: an array, or something that is not a list
ListValue(items) == [list |-> TRUE, items |-> items]
NotAList == [list |-> FALSE, items |-> << >>]

NoDoc == [k \in {} |-> NotAList]
MissingFile == [kind |-> "missing", doc |-> NoDoc]
CorruptFile == [kind |-> "corrupt", doc |-> NoDoc]
ObjectFile(d) == [kind |-> "object", doc |-> d]
\* valid JSON whose top level is no object, such as []
NonObjectFile == [kind |-> "nonobject", doc |-> NoDoc]

\* isinstance(r, (int, str)) and str(r).isdigit()
IsDigitItem(x) == x.t \in {"int", "str", "superscript"} /\ x.v >= 0

\* bot.py:48-50 raises an exception that bot.py:57 does not catch:
\* AttributeError from .items() on a value that is no dict, ValueError from
\* int() on a string that isdigit() accepts and int() rejects
LoadCrashes(file) ==
    \/ file.kind = "nonobject"
    \/ /\ file.kind = "object"
       /\ \E n \in DOMAIN file.doc :
             /\ file.doc[n].list
             /\ \E k \in DOMAIN file.doc[n].items :
                   file.doc[n].items[k].t = "superscript"

\* [int(r) for r in roles if ...]
RECURSIVE IntsOf(_)
IntsOf(items) ==
    IF items = << >> THEN << >>
    ELSE IF IsDigitItem(Head(items)) THEN <<Head(items).v>> \o IntsOf(Tail(items))
    ELSE IntsOf(Tail(items))

\* the registry load_database leaves in nickname_role_db
LoadDatabase(file) ==
    IF file.kind = "object"
    THEN [n \in DOMAIN file.doc |->
            IF file.doc[n].list THEN IntsOf(file.doc[n].items) ELSE << >>]
    ELSE [n \in {} |-> << >>]

RECURSIVE ItemsOf(_)
ItemsOf(ids) ==
    IF ids = << >> THEN << >> ELSE <<IntItem(Head(ids))>> \o ItemsOf(Tail(ids))

\* json.dump(nickname_role_db, f)
Dump(db) == ObjectFile([n \in DOMAIN db |-> ListValue(ItemsOf(db[n]))])

\* results of save_database: written; open() raised IOError (file untouched);
\* the write raised IOError after open(..., 'w') truncated the file
SaveOutcomes == {"ok", "open_failed", "write_failed"}

SaveDatabase(db, file, res) ==
    IF res = "ok" THEN Dump(db)
    ELSE IF res = "open_failed" THEN file
    ELSE CorruptFile

\* documents DATABASE_FILE may hold when the process starts: none; one the
\* bot wrote; one written by hand, with a role id given twice (once as a
\* string of digits), an element that is no id, and a value that is no list
StoredDocs ==
    { MissingFile,
      ObjectFile([n \in {Falcon, Ghost} |->
          IF n = Falcon THEN ListValue(<<IntItem(10), IntItem(20)>>)
          ELSE ListValue(<<IntItem(99)>>)]),
      ObjectFile([n \in {Falcon, Unknown} |->
          IF n = Falcon
          THEN ListValue(<<IntItem(20), StrItem(20), OtherItem, IntItem(99)>>)
          ELSE NotAList]) }

\* documents on which the load of bot.py:285 raises
CrashDocs ==
    { NonObjectFile,
      ObjectFile([n \in {Unknown} |-> ListValue(<<SuperscriptItem>>)]) }

----------------------------------------------------------------------------
(* Handler coroutines.                                                     *)

\* The locals of a handler coroutine.  kind: the handler; pc: the platform
\* call it is suspended at.  ids is roles_to_assign_ids, i the position of
\* the for loop in it, add is roles_to_add_objects, nf is not_found_role_ids.
\* aliased: ids is still the very list object nickname_role_db holds for
\* nick (bot.py:160 takes the list itself, not a copy).
\* For add_nickname: nick is nickname_clean, role the role id, action what it
\* reports, saved the result of its save_database call ("-": not called).
\* History fields: snap is the content of ids at the lookup, looked says that the handler reached the registry lookup
\* of bot.py:160, addres is the result of the add_roles call, msgs the
\* messages this handler has asked the platform to send, fresh says that
\* the user has not joined again since this handler read the tracker.
Idle ==
    [kind |-> "idle", pc |-> "-", user |-> 0, guild |-> NoGuild, nick |-> << >>,
     ids |-> << >>, i |-> 1, add |-> << >>, nf |-> << >>, aliased |-> FALSE,
     role |-> 0, action |-> "-", saved |-> "-", looked |-> FALSE, snap |-> << >>,
     addres |-> "-", msgs |-> {}, fresh |-> FALSE]

NoOut ==
    [task |-> 0, handler |-> "-", seg |-> "-", kind |-> "-", call |-> "-",
     msg |-> "-", roles |-> {}, result |-> "-", touched |-> {}, rec |-> Idle]

\* bot.py:285: load_database() raised and the process ended before bot.run
Crashed == [NoOut EXCEPT !.handler = "main", !.kind = "end", !.result = "raised"]

\* an event is dispatched to a new task, in the first free slot
Start(t) ==
    /\ ~LoadCrashes(stored)
    /\ events < MaxEvents
    /\ tasks[t] = Idle
    /\ \A s \in Tasks : s < t => tasks[s] # Idle
    /\ events' = events + 1

\* the segment ends by issuing a platform call and suspending at it
Issue(ts, t, rec, seg, call, msg, roles, touched) ==
    /\ tasks' = [ts EXCEPT ![t] = rec]
    /\ out' = [task |-> t, handler |-> rec.kind, seg |-> seg, kind |-> "call",
               call |-> call, msg |-> msg, roles |-> roles, result |-> "-",
               touched |-> touched, rec |-> rec]

\* the handler ends: it returns, or an exception leaves it
End(ts, t, rec, seg, result, touched) ==
    /\ tasks' = [ts EXCEPT ![t] = Idle]
    /\ out' = [task |-> t, handler |-> rec.kind, seg |-> seg, kind |-> "end",
               call |-> "-", msg |-> "-", roles |-> {}, result |-> result,
               touched |-> touched, rec |-> rec]

\* await message.channel.send(...)
Send(ts, t, rec, seg, pc, msg, roles, touched) ==
    Issue(ts, t, [rec EXCEPT !.pc = pc, !.msgs = @ \cup {msg}], seg, "send", msg,
          roles, touched)

----------------------------------------------------------------------------
(* on_ready, bot.py:72-85                                                  *)

OnReady(t) ==
    /\ Start(t)
    /\ nickname_role_db' = LoadDatabase(stored)
    /\ Issue([s \in Tasks |-> [tasks[s] EXCEPT !.aliased = FALSE]], t,
             [Idle EXCEPT !.kind = "ready", !.pc = "tree_sync"],
             "first", "sync", "-", {}, {"registry"})
    /\ UNCHANGED <<pending_verifications, stored, lastJoin, lookups>>

\* bot.py:82-85: whatever bot.tree.sync() does, the handler only prints
ReadySyncDone(t, res) ==
    /\ tasks[t].kind = "ready" /\ tasks[t].pc = "tree_sync"
    /\ End(tasks, t, tasks[t], "resumed", "returned", {})
    /\ UNCHANGED <<nickname_role_db, pending_verifications, stored, lastJoin,
                   lookups, events>>

----------------------------------------------------------------------------
(* on_member_join, bot.py:87-121                                           *)

\* a join that keeps the entry of a user who is already pending
BeginKeepsFirst(pv, u, g) == IF pv[u] # NoGuild THEN pv ELSE [pv EXCEPT ![u] = g]

\* bot.py:97
Begin(pv, u, g) == [pv EXCEPT ![u] = g]

OnMemberJoin(t, u, g) ==
    /\ Start(t)
    /\ LET rec == [Idle EXCEPT !.kind = "join", !.user = u, !.guild = g] IN
       IF IsBot(u)
       THEN /\ End(tasks, t, rec, "first", "returned", {})
            /\ UNCHANGED <<pending_verifications, lastJoin, lookups>>
       ELSE /\ pending_verifications' = Begin(pending_verifications, u, g)
            /\ lastJoin' = [lastJoin EXCEPT
                    ![u] = [guild |-> g, over |-> pending_verifications[u]]]
            /\ lookups' = [lookups EXCEPT ![u] = 0]
            /\ Issue([s \in Tasks |->
                        IF tasks[s].kind = "reply" /\ tasks[s].user = u
                        THEN [tasks[s] EXCEPT !.fresh = FALSE] ELSE tasks[s]],
                     t, [rec EXCEPT !.pc = "create_dm"], "first", "create_dm",
                     "-", {}, {"tracker"})
    /\ UNCHANGED <<nickname_role_db, stored>>

\* a join handler that takes the entry back when the invitation fails
JoinCreateDmDoneRollsBack(t, res) ==
    /\ tasks[t].kind = "join" /\ tasks[t].pc = "create_dm"
    /\ IF res = "ok"
       THEN /\ Send(tasks, t, tasks[t], "resumed", "send_welcome", "welcome", {}, {})
            /\ UNCHANGED pending_verifications
       ELSE /\ pending_verifications' =
                  [pending_verifications EXCEPT ![tasks[t].user] = NoGuild]
            /\ End(tasks, t, tasks[t], "resumed", "returned", {"tracker"})
    /\ UNCHANGED <<nickname_role_db, stored, lastJoin, lookups, events>>

\* bot.py:100-114: a failure of create_dm is caught and printed
JoinCreateDmDone(t, res) ==
    /\ tasks[t].kind = "join" /\ tasks[t].pc = "create_dm"
    /\ IF res = "ok"
       THEN Send(tasks, t, tasks[t], "resumed", "send_welcome", "welcome", {}, {})
       ELSE End(tasks, t, tasks[t], "resumed", "returned", {})
    /\ UNCHANGED <<nickname_role_db, pending_verifications, stored, lastJoin,
                   lookups, events>>

\* the join handler with the expiry of bot.py:116-120 enabled: it removes the
\* entry in its finally clause
JoinSendDoneExpiring(t, res) ==
    /\ tasks[t].kind = "join" /\ tasks[t].pc = "send_welcome"
    /\ pending_verifications' = [pending_verifications EXCEPT ![tasks[t].user] = NoGuild]
    /\ End(tasks, t, tasks[t], "resumed", "returned", {"tracker"})
    /\ UNCHANGED <<nickname_role_db, stored, lastJoin, lookups, events>>

\* bot.py:106-121: a failure of the send is caught and printed
JoinSendDone(t, res) ==
    /\ tasks[t].kind = "join" /\ tasks[t].pc = "send_welcome"
    /\ End(tasks, t, tasks[t], "resumed", "returned", {})
    /\ UNCHANGED <<nickname_role_db, pending_verifications, stored, lastJoin,
                   lookups, events>>

----------------------------------------------------------------------------
(* on_message, bot.py:124-220                                              *)

\* bot.py:218-219
Resolve(pv, u) == [pv EXCEPT ![u] = NoGuild]

\* bot.py:166-179, the for loop over roles_to_assign_ids from position i on,
\* up to the first role the hierarchy blocks (the loop suspends at the send
\* of bot.py:174) or to the end of the list
RECURSIVE Scan(_, _, _, _, _)
Scan(g, ids, i, add, nf) ==
    IF i > Len(ids)
    THEN [stop |-> "end", i |-> i, add |-> add, nf |-> nf, role |-> 0]
    ELSE IF ~RoleExists(g, ids[i])
    THEN Scan(g, ids, i + 1, add, Append(nf, ids[i]))
    ELSE IF TopRoleAbove(g, ids[i])
    THEN Scan(g, ids, i + 1, Append(add, ids[i]), nf)
    ELSE [stop |-> "blocked", i |-> i + 1, add |-> add, nf |-> nf, role |-> ids[i]]

\* bot.py:217-220: the end of the handler
Complete(t, rec, seg, touched) ==
    /\ pending_verifications' = Resolve(pending_verifications, rec.user)
    /\ End(tasks, t, rec, seg, "returned", touched \cup {"tracker"})

\* bot.py:166-206: run the loop on, then assign what is assignable
RunLoop(t, rec, seg, touched) ==
    LET s == Scan(rec.guild, rec.ids, rec.i, rec.add, rec.nf)
        r == [rec EXCEPT !.i = s.i, !.add = s.add, !.nf = s.nf]
    IN  IF s.stop = "blocked"
        THEN /\ Send(tasks, t, r, seg, "send_blocked", "blocked", {s.role}, touched)
             /\ UNCHANGED pending_verifications
        ELSE IF r.add # << >>
        THEN /\ Issue(tasks, t, [r EXCEPT !.pc = "add_roles", !.addres = "issued"],
                      seg, "add_roles", "-", Range(r.add), touched)
             /\ UNCHANGED pending_verifications
        ELSE Complete(t, r, seg, touched)

\* bot.py:194-202: the except clauses of the try around add_roles
Except(t, rec, res) ==
    Send(tasks, t, rec, "resumed", "send_failure",
         IF res = "forbidden" THEN "forbidden"
         ELSE IF res = "http" THEN "http" ELSE "unexpected", {}, {})

\* a handler that takes every sender for pending
AlwaysPending(pv, a) == TRUE

\* bot.py:132: message.author.id in pending_verifications
IsPending(pv, a) == pv[a] # NoGuild

\* results of bot.get_guild and guild.get_member
Caches == {"found", "no_guild", "no_member"}

\* bot.py:125-215, up to the first platform call
OnMessage(t, a, isDM, text, cache) ==
    /\ Start(t)
    /\ LET rec == [Idle EXCEPT !.kind = "reply", !.user = a] IN
       IF IsBot(a) \/ ~isDM
       THEN /\ End(tasks, t, rec, "first", "returned", {})
            /\ UNCHANGED <<pending_verifications, lookups>>
       ELSE IF ~IsPending(pending_verifications, a)
       THEN /\ End(tasks, t, rec, "first", "returned", {"tracker"})
            /\ UNCHANGED <<pending_verifications, lookups>>
       ELSE IF cache # "found"
       THEN /\ pending_verifications' = Resolve(pending_verifications, a)
            /\ End(tasks, t, [rec EXCEPT !.guild = pending_verifications[a]],
                   "first", "returned", {"tracker"})
            /\ UNCHANGED lookups
       ELSE LET nickname_attempt == Strip(text)
                known == nickname_attempt \in DOMAIN nickname_role_db
                r == [rec EXCEPT !.guild = pending_verifications[a],
                                 !.nick = nickname_attempt,
                                 !.ids = IF known THEN nickname_role_db[nickname_attempt]
                                         ELSE << >>,
                                 !.snap = IF known THEN nickname_role_db[nickname_attempt]
                                          ELSE << >>,
                                 !.aliased = known,
                                 !.looked = TRUE,
                                 !.fresh = TRUE]
            IN  /\ lookups' = [lookups EXCEPT ![a] = IF @ < 2 THEN @ + 1 ELSE @]
                /\ IF r.ids # << >>
                   THEN RunLoop(t, r, "first", {"tracker", "registry"})
                   ELSE /\ Send(tasks, t, r, "first", "send_notfound", "notfound", {},
                                {"tracker", "registry"})
                        /\ UNCHANGED pending_verifications
    /\ UNCHANGED <<nickname_role_db, stored, lastJoin>>

\* bot.py:174-179: the send for a blocked role returned or raised; it is
\* outside any try, so a failure leaves the handler
ReplySendBlockedDone(t, res) ==
    /\ tasks[t].kind = "reply" /\ tasks[t].pc = "send_blocked"
    /\ IF res = "ok"
       THEN RunLoop(t, tasks[t], "resumed",
                    IF tasks[t].aliased THEN {"registry"} ELSE {})
       ELSE /\ End(tasks, t, tasks[t], "resumed", "raised", {})
            /\ UNCHANGED pending_verifications
    /\ UNCHANGED <<nickname_role_db, stored, lastJoin, lookups, events>>

\* bot.py:183-202: add_roles returned or raised
ReplyAddRolesDone(t, res) ==
    /\ tasks[t].kind = "reply" /\ tasks[t].pc = "add_roles"
    /\ LET r == [tasks[t] EXCEPT !.addres = res] IN
       IF res = "ok"
       THEN Send(tasks, t, r, "resumed", "send_success", "success", Range(r.add), {})
       ELSE Except(t, r, res)
    /\ UNCHANGED <<nickname_role_db, pending_verifications, stored, lastJoin,
                   lookups, events>>

\* bot.py:186-202: the send of the success message is inside the try
ReplySendSuccessDone(t, res) ==
    /\ tasks[t].kind = "reply" /\ tasks[t].pc = "send_success"
    /\ IF res = "ok"
       THEN IF tasks[t].nf # << >>
            THEN /\ Send(tasks, t, tasks[t], "resumed", "send_note", "note",
                         Range(tasks[t].nf), {})
                 /\ UNCHANGED pending_verifications
            ELSE Complete(t, tasks[t], "resumed", {})
       ELSE /\ Except(t, tasks[t], res)
            /\ UNCHANGED pending_verifications
    /\ UNCHANGED <<nickname_role_db, stored, lastJoin, lookups, events>>

\* bot.py:190-202: the send of the note is inside the try too
ReplySendNoteDone(t, res) ==
    /\ tasks[t].kind = "reply" /\ tasks[t].pc = "send_note"
    /\ IF res = "ok"
       THEN Complete(t, tasks[t], "resumed", {})
       ELSE /\ Except(t, tasks[t], res)
            /\ UNCHANGED pending_verifications
    /\ UNCHANGED <<nickname_role_db, stored, lastJoin, lookups, events>>

\* bot.py:196, 199, 202: a send inside an except clause; its failure leaves
\* the handler
ReplySendFailureDone(t, res) ==
    /\ tasks[t].kind = "reply" /\ tasks[t].pc = "send_failure"
    /\ IF res = "ok"
       THEN Complete(t, tasks[t], "resumed", {})
       ELSE /\ End(tasks, t, tasks[t], "resumed", "raised", {})
            /\ UNCHANGED pending_verifications
    /\ UNCHANGED <<nickname_role_db, stored, lastJoin, lookups, events>>

\* bot.py:211-220: the send of the not-recognized message is outside any try
ReplySendNotFoundDone(t, res) ==
    /\ tasks[t].kind = "reply" /\ tasks[t].pc = "send_notfound"
    /\ IF res = "ok"
       THEN Complete(t, tasks[t], "resumed", {})
       ELSE /\ End(tasks, t, tasks[t], "resumed", "raised", {})
            /\ UNCHANGED pending_verifications
    /\ UNCHANGED <<nickname_role_db, stored, lastJoin, lookups, events>>

----------------------------------------------------------------------------
(* add_nickname, bot.py:227-277                                            *)

\* a command that appends without looking whether the role is linked already
UpsertAlwaysAppends(db, n, r) ==
    IF n \in DOMAIN db
    THEN [action |-> "updated", db |-> [db EXCEPT ![n] = Append(@, r)]]
    ELSE [action |-> "added",
          db |-> [m \in DOMAIN db \cup {n} |-> IF m = n THEN <<r>> ELSE db[m]]]

\* bot.py:243-257: the registry after the command, and what it reports
Upsert(db, n, r) ==
    IF n \in DOMAIN db
    THEN IF r \notin Range(db[n])
         THEN [action |-> "updated", db |-> [db EXCEPT ![n] = Append(@, r)]]
         ELSE [action |-> "unchanged", db |-> db]
    ELSE [action |-> "added",
          db |-> [m \in DOMAIN db \cup {n} |-> IF m = n THEN <<r>> ELSE db[m]]]

\* a command that accepts every nickname
NeverEmpty(n) == FALSE

\* bot.py:238: not nickname_clean
IsEmptyNickname(n) == n = << >>

\* bot.py:246 appends to the list object itself: a reply handler that holds
\* that object sees the new element
Appended(ts, n, r) ==
    [s \in Tasks |->
        IF ts[s].kind = "reply" /\ ts[s].aliased /\ ts[s].nick = n
        THEN [ts[s] EXCEPT !.ids = Append(@, r)] ELSE ts[s]]

AddNickname(t, nickname, role, saved) ==
    /\ Start(t)
    /\ LET nickname_clean == Strip(nickname)
           rec == [Idle EXCEPT !.kind = "admin", !.pc = "respond",
                               !.nick = nickname_clean, !.role = role]
           up == Upsert(nickname_role_db, nickname_clean, role)
       IN  IF IsEmptyNickname(nickname_clean)
           THEN /\ saved = "ok"
                /\ Issue(tasks, t, [rec EXCEPT !.action = "invalid"], "first",
                         "respond", "empty", {}, {})
                /\ UNCHANGED <<nickname_role_db, stored>>
           ELSE IF up.action = "unchanged"
           THEN /\ saved = "ok"
                /\ Issue(tasks, t, [rec EXCEPT !.action = "unchanged"], "first",
                         "respond", "unchanged", {}, {"registry"})
                /\ UNCHANGED <<nickname_role_db, stored>>
           ELSE /\ nickname_role_db' = up.db
                /\ stored' = SaveDatabase(up.db, stored, saved)
                /\ Issue(IF up.action = "updated"
                         THEN Appended(tasks, nickname_clean, role) ELSE tasks,
                         t, [rec EXCEPT !.action = up.action, !.saved = saved],
                         "first", "respond", up.action, {}, {"registry", "file"})
    /\ UNCHANGED <<pending_verifications, lastJoin, lookups>>

\* the response was sent, or its failure went to add_nickname_error
\* (bot.py:267-277), which sends an error response
AdminRespondDone(t, res) ==
    /\ tasks[t].kind = "admin" /\ tasks[t].pc = "respond"
    /\ IF res = "ok"
       THEN End(tasks, t, tasks[t], "resumed", "returned", {})
       ELSE Issue(tasks, t, [tasks[t] EXCEPT !.pc = "respond_error"], "resumed",
                  "respond", "error", {}, {})
    /\ UNCHANGED <<nickname_role_db, pending_verifications, stored, lastJoin,
                   lookups, events>>

\* bot.py:277: a failure of the error response leaves the error handler
AdminErrorRespondDone(t, res) ==
    /\ tasks[t].kind = "admin" /\ tasks[t].pc = "respond_error"
    /\ End(tasks, t, tasks[t], "resumed",
           IF res = "ok" THEN "returned" ELSE "raised", {})
    /\ UNCHANGED <<nickname_role_db, pending_verifications, stored, lastJoin,
                   lookups, events>>

----------------------------------------------------------------------------
(* The program.                                                            *)

\* bot.py:37-38 and 281-286: load_database() runs before bot.run
Init ==
    /\ stored \in StoredDocs \cup CrashDocs
    /\ nickname_role_db = LoadDatabase(stored)
    /\ pending_verifications = [a \in Accounts |-> NoGuild]
    /\ tasks = [t \in Tasks |-> Idle]
    /\ out = IF LoadCrashes(stored) THEN Crashed ELSE NoOut
    /\ lastJoin = [a \in Accounts |-> [guild |-> NoGuild, over |-> NoGuild]]
    /\ lookups = [a \in Accounts |-> 0]
    /\ events = 0

Next ==
    \/ \E t \in Tasks : OnReady(t)
    \/ \E t \in Tasks, res \in Outcomes : ReadySyncDone(t, res)
    \/ \E t \in Tasks, u \in Accounts, g \in Guilds : OnMemberJoin(t, u, g)
    \/ \E t \in Tasks, res \in Outcomes : JoinCreateDmDone(t, res)
    \/ \E t \in Tasks, res \in Outcomes : JoinSendDone(t, res)
    \/ \E t \in Tasks, a \in Accounts, isDM \in BOOLEAN, text \in ReplyTexts,
          cache \in Caches : OnMessage(t, a, isDM, text, cache)
    \/ \E t \in Tasks, res \in Outcomes : ReplySendBlockedDone(t, res)
    \/ \E t \in Tasks, res \in Outcomes : ReplyAddRolesDone(t, res)
    \/ \E t \in Tasks, res \in Outcomes : ReplySendSuccessDone(t, res)
    \/ \E t \in Tasks, res \in Outcomes : ReplySendNoteDone(t, res)
    \/ \E t \in Tasks, res \in Outcomes : ReplySendFailureDone(t, res)
    \/ \E t \in Tasks, res \in Outcomes : ReplySendNotFoundDone(t, res)
    \/ \E t \in Tasks, nickname \in AdminTexts, role \in AdminRoles,
          saved \in SaveOutcomes : AddNickname(t, nickname, role, saved)
    \/ \E t \in Tasks, res \in Outcomes : AdminRespondDone(t, res)
    \/ \E t \in Tasks, res \in Outcomes : AdminErrorRespondDone(t, res)

Spec == Init /\ [][Next]_vars

----------------------------------------------------------------------------
(* Properties.                                                             *)

\* the last segment ended a reply handler that had reached the registry lookup
ReplyEnded == out.kind = "end" /\ out.handler = "reply" /\ out.rec.looked

\* the last segment issued the role-assignment call
AddRolesIssued == out.kind = "call" /\ out.call = "add_roles"

NoDuplicates(ids) == \A j, k \in DOMAIN ids : ids[j] = ids[k] => j = k

\* C1: once on_message has processed the reply of a pending user to its end,
\* whatever the platform calls made on the way returned or raised, the user
\* has no entry in pending_verifications.
C1_PendingRemovedAfterReply ==
    ReplyEnded => pending_verifications[out.rec.user] = NoGuild

\* C2: a role-assignment call carries exactly the roles of the list looked up
\* for the trimmed reply that exist in the pending guild and lie strictly
\* below the bot's top role: never a role of equal or higher position, never
\* a role that does not exist, never an empty set.  Unless on_ready has
\* replaced the registry since the lookup, that list is the registry's list
\* for the nickname at the moment of the call.
C2_AssignsExactlyAssignable ==
    AddRolesIssued =>
        LET r == out.rec IN
        /\ out.handler = "reply"
        /\ out.roles # {}
        /\ out.roles = {x \in Range(r.ids) :
                          RoleExists(r.guild, x)
                          /\ Position(r.guild, x) < TopPosition(r.guild)}
        /\ r.aliased => /\ r.nick \in DOMAIN nickname_role_db
                        /\ r.ids = nickname_role_db[r.nick]

\* C2 witness: Falcon -> [10, 20] in guild 1, where 10 is senior to the bot
\* and 20 junior: the call carries exactly {20}.
C2_Witness ==
    /\ AddRolesIssued
    /\ out.rec.nick = Falcon /\ out.rec.ids = <<10, 20>> /\ out.rec.guild = 1
    /\ out.roles = {20}

\* C3: no failure of a platform call leaves a join or reply handler as an
\* uncaught exception.
C3_NoFailureEscapes ==
    ~(out.kind = "end" /\ out.handler \in {"join", "reply"} /\ out.result = "raised")

\* C4, as claimed: while a handler is in flight (started, possibly suspended
\* at a platform call), no other handler reads or writes the registry or the
\* tracker.
C4_RunToCompletion ==
    out.touched # {} => \A s \in Tasks \ {out.task} : tasks[s] = Idle

\* C4, amended: handlers interleave at their platform calls, and what holds
\* is where the writes are: the registry and the stored document change only
\* in the first segment of add_nickname or on_ready, before their first
\* suspension; the tracker changes only in the first segment of a join or
\* reply handler, or as the last step of a reply handler that returns.
C4_WritesOnlyAtHandlerEnds ==
    [][/\ (nickname_role_db' # nickname_role_db \/ stored' # stored)
            => out'.seg = "first" /\ out'.handler \in {"admin", "ready"}
       /\ pending_verifications' # pending_verifications
            => \/ out'.seg = "first" /\ out'.handler \in {"join", "reply"}
               \/ out'.handler = "reply" /\ out'.kind = "end"
                  /\ out'.result = "returned"]_vars

\* C4 witness: a join handler has written the tracker while a reply handler
\* of the same user is suspended at a platform call.
C4_Witness ==
    /\ out.handler = "join" /\ out.seg = "first" /\ "tracker" \in out.touched
    /\ \E s \in Tasks \ {out.task} :
          tasks[s].kind = "reply" /\ tasks[s].user = out.rec.user

\* C5: what a reply with a non-empty assignable set reports follows from the
\* result of add_roles alone: after a successful call only the success
\* message and its note are sent, after a refused call only the
\* permission message, after any other failure only an error message.
C5_ReportFollowsAssignment ==
    (out.kind = "call" /\ out.call = "send" /\ out.handler = "reply"
     /\ out.rec.addres \notin {"-", "issued"}) =>
        out.msg \in (IF out.rec.addres = "ok" THEN {"success", "note"}
                     ELSE IF out.rec.addres = "forbidden" THEN {"forbidden"}
                     ELSE {"http", "unexpected"})

\* C6: a reply whose identifier is registered with roles none of which exists
\* in the guild issues no role assignment, is answered with the
\* not-recognized message, and the pending entry is removed.
C6_AllRolesGoneIsReported ==
    (ReplyEnded /\ out.rec.ids # << >> /\ out.rec.i > Len(out.rec.ids)
     /\ \A x \in Range(out.rec.ids) : ~RoleExists(out.rec.guild, x)) =>
        /\ out.rec.addres = "-"
        /\ "notfound" \in out.rec.msgs
        /\ pending_verifications[out.rec.user] = NoGuild

\* C7: the entry of a user is the guild of that user's latest join, and a
\* reply handler started after that join resolves, checks and assigns in
\* that guild.
C7_LastJoinWins ==
    /\ \A a \in Accounts :
          pending_verifications[a] \in {NoGuild, lastJoin[a].guild}
    /\ \A t \in Tasks :
          (tasks[t].kind = "reply" /\ tasks[t].looked /\ tasks[t].fresh)
              => tasks[t].guild = lastJoin[tasks[t].user].guild
    /\ (AddRolesIssued /\ out.rec.fresh) =>
          out.roles = {x \in Range(out.rec.ids) :
                          RoleExists(lastJoin[out.rec.user].guild, x)
                          /\ TopRoleAbove(lastJoin[out.rec.user].guild, x)}

\* C7 witness: the user joined guild 1, then guild 2 while still pending, and
\* the reply is assigned role 99, which exists in guild 2 only.
C7_Witness ==
    /\ AddRolesIssued /\ out.rec.fresh
    /\ lastJoin[out.rec.user] = [guild |-> 2, over |-> 1]
    /\ out.rec.guild = 2 /\ out.roles = {99}

\* C8: a reply with an identifier that is no key of the registry, or whose
\* list is empty, issues no role assignment and removes the pending entry.
C8_NotFoundRemovesEntry ==
    (ReplyEnded /\ out.rec.pc = "send_notfound") =>
        /\ out.rec.addres = "-"
        /\ pending_verifications[out.rec.user] = NoGuild

\* C9: for each join of a user, at most one reply of that user is taken
\* through the registry lookup.
C9_OneLookupPerJoin ==
    \A a \in Accounts : lookups[a] <= 1

\* C10: no role id occurs twice in the list of an identifier.
C10_NoDuplicateGrants ==
    \A n \in DOMAIN nickname_role_db : NoDuplicates(nickname_role_db[n])


\* the step dispatched an event to the named handler
Dispatched(handler) ==
    events' = events + 1 /\ out'.handler = handler /\ out'.seg = "first"

\* the step resumed a handler of the named kind
Resumed(handler) ==
    tasks' # tasks /\ out'.handler = handler /\ out'.seg = "resumed"

\* bot.py:167-171: the roles of a list that the loop collects for add_roles
Assignable(g, ids) ==
    {x \in Range(ids) : RoleExists(g, x) /\ TopRoleAbove(g, x)}

\* bot.py:167-174: the roles of a list that the loop reports as blocked
Blocked(g, ids) ==
    {x \in Range(ids) : RoleExists(g, x) /\ ~TopRoleAbove(g, x)}

\* C11: add_nickname is an upsert: an absent identifier is created with the
\* one role and reported added; a present identifier without the role gets
\* it appended at the end and is reported updated; a present identifier that
\* holds the role is reported unchanged, and then neither the registry nor
\* the stored document changes and save_database is not called.
C11_UpsertOutcomes ==
    [][(Dispatched("admin") /\ out'.rec.nick # << >>) =>
         LET n == out'.rec.nick
             r == out'.rec.role
             db == nickname_role_db
         IN  IF n \notin DOMAIN db
             THEN /\ out'.msg = "added" /\ out'.rec.saved # "-"
                  /\ DOMAIN nickname_role_db' = DOMAIN db \cup {n}
                  /\ nickname_role_db'[n] = <<r>>
                  /\ \A m \in DOMAIN db : nickname_role_db'[m] = db[m]
             ELSE IF \A k \in DOMAIN db[n] : db[n][k] # r
             THEN /\ out'.msg = "updated" /\ out'.rec.saved # "-"
                  /\ DOMAIN nickname_role_db' = DOMAIN db
                  /\ nickname_role_db'[n] = db[n] \o <<r>>
                  /\ \A m \in DOMAIN db \ {n} : nickname_role_db'[m] = db[m]
             ELSE /\ out'.msg = "unchanged" /\ out'.rec.saved = "-"
                  /\ nickname_role_db' = db
                  /\ stored' = stored]_vars

\* C11 witness: the same pair registered twice on an empty registry: the
\* second command reports unchanged and the list has one element.
C11_Witness ==
    /\ out.handler = "admin" /\ out.seg = "first" /\ out.msg = "unchanged"
    /\ out.rec.nick = Falcon /\ out.rec.role = 10
    /\ DOMAIN nickname_role_db = {Falcon}
    /\ nickname_role_db[Falcon] = <<10>>

\* C12: the registry in memory stays authoritative: no step takes a link away
\* from it, whatever happened to the save that followed the registration.
C12_MemoryStaysAuthoritative ==
    [][\A n \in DOMAIN nickname_role_db :
          /\ n \in DOMAIN nickname_role_db'
          /\ \A k \in DOMAIN nickname_role_db[n] :
                /\ k \in DOMAIN nickname_role_db'[n]
                /\ nickname_role_db'[n][k] = nickname_role_db[n][k]]_vars

\* C13: the registry and the stored document are changed by add_nickname
\* alone, which saves once after every change, so that after a successful
\* save the stored document is the dump of the registry.
C13_OnlyRegistrationWrites ==
    [][/\ (nickname_role_db' # nickname_role_db \/ stored' # stored) =>
            /\ out'.handler = "admin" /\ out'.seg = "first"
            /\ out'.rec.saved # "-"
            /\ out'.rec.saved = "ok" => stored' = Dump(nickname_role_db')
       /\ (Dispatched("admin") /\ out'.msg \in {"added", "updated"}) =>
            out'.rec.saved # "-"]_vars

\* C14: a nickname that is empty after stripping is rejected: the registry
\* and the stored document are unchanged and save_database is not called.
C14_EmptyNicknameRejected ==
    [][(Dispatched("admin") /\ out'.rec.nick = << >>) =>
         /\ out'.msg = "empty" /\ out'.rec.saved = "-"
         /\ nickname_role_db' = nickname_role_db
         /\ stored' = stored]_vars

\* C14 witness: a command was answered with the empty-nickname message.
C14_Witness ==
    /\ out.handler = "admin" /\ out.seg = "first" /\ out.msg = "empty"
    /\ out.rec.nick = << >> /\ out.rec.saved = "-"

\* C15: a message from a user without a pending entry ends the handler at
\* once: no lookup, no platform call, registry and tracker unchanged.
C15_NotPendingIsIgnored ==
    [][(Dispatched("reply") /\ pending_verifications[out'.rec.user] = NoGuild) =>
         /\ out'.kind = "end" /\ out'.result = "returned"
         /\ ~out'.rec.looked /\ "registry" \notin out'.touched
         /\ tasks' = tasks
         /\ nickname_role_db' = nickname_role_db
         /\ stored' = stored
         /\ pending_verifications' = pending_verifications
         /\ lookups' = lookups]_vars

\* C15 witness: a direct message of a person who is not pending was dropped
\* after the look at the tracker.
C15_Witness ==
    /\ out.handler = "reply" /\ out.kind = "end" /\ out.touched = {"tracker"}
    /\ ~IsBot(out.rec.user) /\ out.rec.guild = NoGuild
    /\ pending_verifications[out.rec.user] = NoGuild

\* C16: a join of a person writes the entry in the segment that issues the
\* first invitation call, and no later segment of the join handler touches
\* the tracker, whatever create_dm and send returned; a join of an automated
\* account writes nothing and issues no call.
C16_JoinKeepsEntry ==
    [][/\ Dispatched("join") =>
            IF IsBot(out'.rec.user)
            THEN /\ out'.kind = "end"
                 /\ pending_verifications' = pending_verifications
                 /\ tasks' = tasks
            ELSE /\ out'.kind = "call" /\ out'.call = "create_dm"
                 /\ pending_verifications' =
                       [pending_verifications EXCEPT ![out'.rec.user] = out'.rec.guild]
       /\ Resumed("join") => pending_verifications' = pending_verifications]_vars

\* C16 witness: create_dm failed and the join handler ended with the entry
\* in place.
C16_Witness ==
    /\ out.handler = "join" /\ out.kind = "end" /\ out.rec.pc = "create_dm"
    /\ pending_verifications[out.rec.user] = out.rec.guild

\* C17: the load of a stored document never raises, and a key whose value is
\* no list is loaded with an empty list while the other keys are loaded too.
C17_LoadNeverCrashes ==
    /\ out # Crashed
    /\ (events = 0 /\ stored.kind = "object") =>
          \A n \in DOMAIN stored.doc :
             /\ n \in DOMAIN nickname_role_db
             /\ ~stored.doc[n].list => nickname_role_db[n] = << >>

\* C18: a reply handler that found a list ends only after it has evaluated
\* every role of the list, reported the blocked ones and assigned the
\* assignable ones.
C18_BlockedDoesNotAbort ==
    (ReplyEnded /\ out.rec.snap # << >>) =>
        /\ out.rec.i > Len(out.rec.ids)
        /\ Blocked(out.rec.guild, out.rec.ids) # {} => "blocked" \in out.rec.msgs
        /\ Assignable(out.rec.guild, out.rec.ids) # {} => out.rec.addres # "-"

\* C19: an entry is removed only by a reply handler that started after the
\* join which wrote it.
C19_EntryOutlivesEarlierReply ==
    [][\A a \in Accounts :
          (pending_verifications[a] # NoGuild /\ pending_verifications'[a] = NoGuild) =>
              /\ out'.handler = "reply" /\ out'.rec.user = a
              /\ out'.seg = "first" \/ out'.rec.fresh]_vars

\* C20: a reply handler evaluates and assigns roles of the list as it was at
\* the lookup only.
C20_EvaluatesLookupSnapshot ==
    (out.handler = "reply" /\ out.rec.looked) =>
        /\ out.rec.i - 1 <= Len(out.rec.snap)
        /\ Range(out.rec.add) \subseteq Range(out.rec.snap)
        /\ AddRolesIssued => out.roles \subseteq Range(out.rec.snap)

====
